---- MODULE Spec2Model ----
(***************************************************************************)
(* Model of the incremental ETL pipeline in src/pipeline/ETL: the          *)
(* watermark kept in S3 (extract.py), the extraction of new rows, the      *)
(* cleaning step (transform.py), the local partition backup                *)
(* (partition_transactions.py) and the append-mode upload to the data lake *)
(* (load.py), driven in the order of pipeline.py.                          *)
(*                                                                         *)
(* Time is counted in ticks; TicksPerSecond ticks make one second and      *)
(* TicksPerDay ticks one calendar day.  Amounts are fixed-point integers:  *)
(* the value v of the `total` column is held as v * AmountScale, so that   *)
(* the division by 100 of clean_data is exact.                             *)
(***************************************************************************)
EXTENDS Integers, Sequences, FiniteSets, TLC

\* ------------------------------------------------------------------ bounds
MaxRows == 2
MaxTime == 4
TicksPerSecond == 2
TicksPerDay == 4
NumRuns == 2

\* ------------------------------------------------------- value domains
\* None / NaN / NaT of Python and pandas: a value outside every column's domain
NULL == 0 - 1
\* the watermark key pipeline-state/last_run.txt does not exist
NONE == NULL
AmountScale == 100 * 100

Runs == 1..NumRuns
Times == 0..MaxTime
Dates == 0..(MaxTime \div TicksPerDay)
Totals == {0, 500 * AmountScale}
TruckIds == {1}
PaymentMethodIds == {1}

Max2(a, b) == IF a >= b THEN a ELSE b

\* ------------------------------------------------------------ extract.py
\* dt = fromisoformat(str); dt + 1 second; strftime('%Y-%m-%d %H:%M:%S'):
\* one second is added and the fraction of a second is dropped
AdjustBack(w) == ((Max2(w - TicksPerSecond, 0)) \div TicksPerSecond) * TicksPerSecond
Adjust(w) == ((w + TicksPerSecond) \div TicksPerSecond) * TicksPerSecond

\* the WHERE clause: none when since_timestamp is None, else ft.at > since
ExtractFilterGe(src, since_timestamp) ==
    IF since_timestamp = NONE THEN src
    ELSE {x \in src : x.at >= since_timestamp}
ExtractFilterEpoch(src, since_timestamp) ==
    {x \in src : x.at > Max2(since_timestamp, 0)}
ExtractFilter(src, since_timestamp) ==
    IF since_timestamp = NONE THEN src
    ELSE {x \in src : x.at > since_timestamp}

MinAtOf(S) == CHOOSE m \in {x.at : x \in S} : \A y \in S : m <= y.at

\* ORDER BY ft.at: every ascending arrangement of the rows (rows of equal
\* timestamp come in an order the database chooses)
RECURSIVE OrderByAt(_)
OrderByAt(S) ==
    IF S = {} THEN {<<>>}
    ELSE UNION {{<<x>> \o s : s \in OrderByAt(S \ {x})} :
                x \in {y \in S : y.at = MinAtOf(S)}}

\* the frames pd.read_sql can return for the query
extract_data(src, since_timestamp) == OrderByAt(ExtractFilter(src, since_timestamp))

\* transactions_df['at'].max(); NaT for an empty frame
FirstAt(df) == IF df = <<>> THEN NULL ELSE Head(df).at
RECURSIVE MaxAt(_)
MaxAt(df) ==
    IF df = <<>> THEN NULL ELSE Max2(Head(df).at, MaxAt(Tail(df)))

\* ---------------------------------------------------------- transform.py
DedupKey(x) == <<x.at, x.truck_id, x.payment_method_id, x.total>>

\* drop_duplicates(subset=duplicate_check_cols, keep='first')
RECURSIVE KeepLast(_, _)
KeepLast(df, seen) ==
    IF df = <<>> THEN <<>>
    ELSE IF \E i \in 1..Len(Tail(df)) : DedupKey(Tail(df)[i]) = DedupKey(Head(df))
         THEN KeepLast(Tail(df), seen)
         ELSE <<Head(df)>> \o KeepLast(Tail(df), seen)
RECURSIVE KeepFirst(_, _)
KeepFirst(df, seen) ==
    IF df = <<>> THEN <<>>
    ELSE IF DedupKey(Head(df)) \in seen THEN KeepFirst(Tail(df), seen)
    ELSE <<Head(df)>> \o KeepFirst(Tail(df), seen \cup {DedupKey(Head(df))})

DivideTotalNone(x) == x
DivideTotal(x) == [x EXCEPT !.total = x.total \div 100]

\* df['total'].astype(float) / 100, row by row
RECURSIVE DivideTotals(_)
DivideTotals(df) ==
    IF df = <<>> THEN <<>>
    ELSE <<DivideTotal(Head(df))>> \o DivideTotals(Tail(df))

HasNoNullButId(x) ==
    /\ x.at # NULL
    /\ x.total # NULL
    /\ x.truck_id # NULL
    /\ x.payment_method_id # NULL
HasNoNull(x) ==
    /\ x.transaction_id # NULL
    /\ x.at # NULL
    /\ x.total # NULL
    /\ x.truck_id # NULL
    /\ x.payment_method_id # NULL

clean_data(df) ==
    LET notna   == SelectSeq(df, LAMBDA x : x.total # NULL)
        nonzero == SelectSeq(notna, LAMBDA x : x.total # 0)
        scaled  == DivideTotals(nonzero)
        deduped == KeepFirst(scaled, {})
    IN  SelectSeq(deduped, HasNoNull)

\* --------------------------------- partition_transactions.py and load.py
\* the (year, month, day) of a timestamp, as a day number
DateOf(at) == at \div TicksPerDay

DatesIn(df) == {DateOf(df[i].at) : i \in 1..Len(df)}

\* one group of df.groupby(['year', 'month', 'day'])
GroupOf(df, d) == SelectSeq(df, LAMBDA x : DateOf(x.at) = d)

\* ---------------------------------------------------------------- state
VARIABLES
    source,        \* rows of FACT_Transaction joined with the dimensions
    nextId,        \* next transaction_id the database assigns
    s3_up,         \* whether the watermark store answers
    wm,            \* content of pipeline-state/last_run.txt, NONE when absent
    lake,          \* s3://bucket/transactions/: date -> files, a file a row sequence
    csv,           \* data/transactions.csv
    cleaned_csv,   \* data/transactions_cleaned.csv
    localParts,    \* data/transactions/year=/month=/day=/transactions.parquet
    pc,            \* position of each run
    since,         \* last_timestamp of main_extract
    df,            \* transactions_df of main_extract
    puts,          \* calls of save_last_processed_timestamp made by the run
    start,         \* the stores as they were when the run started
    overlaps,      \* runs started so far while another run was active
    rows_in,       \* a frame handed to clean_data
    cpc,           \* how far the cleaning of rows_in has got
    cleaned,       \* clean_data(rows_in)
    recleaned,     \* clean_data(clean_data(rows_in))
    groups,        \* partition_transactions(cleaned): date -> rows
    day_rows,      \* the frame load_yesterday_transactions returned
    rpc,           \* how far the report has got
    metrics,       \* the dictionary calculate_metrics returned
    response       \* statusCode of lambda_handler, 0 while it has not returned

pipeVars == <<source, nextId, s3_up, wm, lake, csv, cleaned_csv, localParts,
              pc, since, df, puts, start>>
cleanVars == <<rows_in, cpc, cleaned, recleaned, groups>>
reportVars == <<day_rows, rpc, metrics, response>>
auxVars == <<overlaps, cleanVars, reportVars>>

vars == <<pipeVars, overlaps, cleanVars, reportVars>>

Stores == [wm |-> wm, lake |-> lake, csv |-> csv,
           cleaned_csv |-> cleaned_csv, localParts |-> localParts]

NoStores == [wm |-> NONE, lake |-> [d \in Dates |-> <<>>], csv |-> <<>>,
             cleaned_csv |-> <<>>, localParts |-> [d \in Dates |-> <<>>]]

\* nothing has been handed to clean_data or to the report
InitClean ==
    /\ rows_in = <<>>
    /\ cpc = "idle"
    /\ cleaned = <<>>
    /\ recleaned = <<>>
    /\ groups = <<>>

InitReport ==
    /\ day_rows = <<>>
    /\ rpc = "idle"
    /\ metrics = <<>>
    /\ response = 0

InitPipeline ==
    /\ source = {}
    /\ nextId = 1
    /\ s3_up = TRUE
    /\ wm = NONE
    /\ lake = [d \in Dates |-> <<>>]
    /\ csv = <<>>
    /\ cleaned_csv = <<>>
    /\ localParts = [d \in Dates |-> <<>>]
    /\ pc = [r \in Runs |-> "idle"]
    /\ since = [r \in Runs |-> NONE]
    /\ df = [r \in Runs |-> <<>>]
    /\ puts = [r \in Runs |-> 0]
    /\ start = [r \in Runs |-> NoStores]
    /\ overlaps = 0

Init == InitPipeline /\ InitClean /\ InitReport

\* ---------------------------------------------------------- environment
\* the application inserts a transaction into the database
InsertRow ==
    /\ nextId <= MaxRows
    /\ \E t \in Times, v \in Totals, k \in TruckIds, p \in PaymentMethodIds :
        /\ source' = source \cup
              {[transaction_id |-> nextId, at |-> t, total |-> v,
                truck_id |-> k, payment_method_id |-> p]}
    /\ nextId' = nextId + 1
    /\ UNCHANGED <<s3_up, wm, lake, csv, cleaned_csv, localParts,
                   pc, since, df, puts, start>>
    /\ UNCHANGED auxVars

\* the watermark store becomes unreachable, or reachable again
ToggleS3 ==
    /\ s3_up' = ~s3_up
    /\ UNCHANGED <<source, nextId, wm, lake, csv, cleaned_csv, localParts,
                   pc, since, df, puts, start>>
    /\ UNCHANGED auxVars

\* ------------------------------------------------------------- the run
Terminal == {"done", "halted", "failed_get", "failed_put", "failed_transform",
             "failed_partition", "failed_load"}

\* pipeline.py is started (by the scheduler) while no other run is active;
\* runs that do not overlap all take the first process slot
StartRunUnlocked(r) ==
    /\ pc[r] = "idle"
    /\ \A q \in Runs : pc[q] = "idle" => r <= q
    /\ pc' = [pc EXCEPT ![r] = "get_wm"]
    /\ start' = [start EXCEPT ![r] = Stores]
    /\ UNCHANGED <<source, nextId, s3_up, wm, lake, csv, cleaned_csv,
                   localParts, since, df, puts>>
    /\ UNCHANGED auxVars
StartRun(r) ==
    /\ \A q \in Runs : pc[q] = "idle"
    /\ \A q \in Runs : r <= q
    /\ pc' = [pc EXCEPT ![r] = "get_wm"]
    /\ start' = [start EXCEPT ![r] = Stores]
    /\ UNCHANGED <<source, nextId, s3_up, wm, lake, csv, cleaned_csv,
                   localParts, since, df, puts>>
    /\ UNCHANGED auxVars

\* get_last_processed_timestamp: another ClientError than NoSuchKey is raised
GetWatermarkSwallow(r) ==
    /\ pc[r] = "get_wm"
    /\ since' = [since EXCEPT ![r] =
                    IF s3_up /\ wm # NONE THEN Adjust(wm) ELSE NONE]
    /\ pc' = [pc EXCEPT ![r] = "extract"]
    /\ UNCHANGED <<source, nextId, s3_up, wm, lake, csv, cleaned_csv,
                   localParts, df, puts, start>>
    /\ UNCHANGED auxVars
GetWatermark(r) ==
    /\ pc[r] = "get_wm"
    /\ IF ~s3_up
       THEN /\ pc' = [pc EXCEPT ![r] = "failed_get"]
            /\ UNCHANGED since
       ELSE /\ since' = [since EXCEPT ![r] =
                            IF wm = NONE THEN NONE ELSE Adjust(wm)]
            /\ pc' = [pc EXCEPT ![r] = "extract"]
    /\ UNCHANGED <<source, nextId, s3_up, wm, lake, csv, cleaned_csv,
                   localParts, df, puts, start>>
    /\ UNCHANGED auxVars

\* extract_data, and the test len(transactions_df) > 0 of main_extract
ExtractNoGuard(r) ==
    /\ pc[r] = "extract"
    /\ \E frame \in extract_data(source, since[r]) :
        /\ df' = [df EXCEPT ![r] = frame]
        /\ pc' = [pc EXCEPT ![r] = "save_data"]
    /\ UNCHANGED <<source, nextId, s3_up, wm, lake, csv, cleaned_csv,
                   localParts, since, puts, start>>
    /\ UNCHANGED auxVars
Extract(r) ==
    /\ pc[r] = "extract"
    /\ \E frame \in extract_data(source, since[r]) :
        /\ df' = [df EXCEPT ![r] = frame]
        /\ pc' = [pc EXCEPT ![r] =
                     IF Len(frame) > 0 THEN "save_data" ELSE "check_rows"]
    /\ UNCHANGED <<source, nextId, s3_up, wm, lake, csv, cleaned_csv,
                   localParts, since, puts, start>>
    /\ UNCHANGED auxVars

\* save_data(transactions_df)
SaveDataAppend(r) ==
    /\ pc[r] = "save_data"
    /\ csv' = csv \o df[r]
    /\ pc' = [pc EXCEPT ![r] = "put_wm"]
    /\ UNCHANGED <<source, nextId, s3_up, wm, lake, cleaned_csv,
                   localParts, since, df, puts, start>>
    /\ UNCHANGED auxVars
SaveData(r) ==
    /\ pc[r] = "save_data"
    /\ csv' = df[r]
    /\ pc' = [pc EXCEPT ![r] = "put_wm"]
    /\ UNCHANGED <<source, nextId, s3_up, wm, lake, cleaned_csv,
                   localParts, since, df, puts, start>>
    /\ UNCHANGED auxVars

\* save_last_processed_timestamp(transactions_df['at'].max())
PutWatermark(r) ==
    /\ pc[r] = "put_wm"
    /\ puts' = [puts EXCEPT ![r] = @ + 1]
    /\ IF s3_up
       THEN /\ wm' = MaxAt(df[r])
            /\ pc' = [pc EXCEPT ![r] = "check_rows"]
       ELSE /\ UNCHANGED wm
            /\ pc' = [pc EXCEPT ![r] = "failed_put"]
    /\ UNCHANGED <<source, nextId, s3_up, lake, csv, cleaned_csv,
                   localParts, since, df, start>>
    /\ UNCHANGED auxVars

\* pipeline.py: main_extract has returned; exit early if rows_extracted == 0
CheckRowsNoExit(r) ==
    /\ pc[r] = "check_rows"
    /\ pc' = [pc EXCEPT ![r] = "transform"]
    /\ UNCHANGED <<source, nextId, s3_up, wm, lake, csv, cleaned_csv,
                   localParts, since, df, puts, start>>
    /\ UNCHANGED auxVars
CheckRows(r) ==
    /\ pc[r] = "check_rows"
    /\ pc' = [pc EXCEPT ![r] = IF Len(df[r]) = 0 THEN "halted" ELSE "transform"]
    /\ UNCHANGED <<source, nextId, s3_up, wm, lake, csv, cleaned_csv,
                   localParts, since, df, puts, start>>
    /\ UNCHANGED auxVars

\* main_transform: load_data, clean_data, save_cleaned_data
Transform(r) ==
    /\ pc[r] = "transform"
    /\ cleaned_csv' = clean_data(csv)
    /\ pc' = [pc EXCEPT ![r] = "partition"]
    /\ UNCHANGED <<source, nextId, s3_up, wm, lake, csv,
                   localParts, since, df, puts, start>>
    /\ UNCHANGED auxVars

\* main_transform: pd.to_datetime raises on a timestamp it cannot parse
TransformFail(r) ==
    /\ pc[r] = "transform"
    /\ pc' = [pc EXCEPT ![r] = "failed_transform"]
    /\ UNCHANGED <<source, nextId, s3_up, wm, lake, csv, cleaned_csv,
                   localParts, since, df, puts, start>>
    /\ UNCHANGED auxVars

\* main_partition_transactions: each group replaces that date's local file
Partition(r) ==
    /\ pc[r] = "partition"
    /\ localParts' = [d \in Dates |->
                        IF d \in DatesIn(cleaned_csv)
                        THEN GroupOf(cleaned_csv, d) ELSE localParts[d]]
    /\ pc' = [pc EXCEPT ![r] = "load"]
    /\ UNCHANGED <<source, nextId, s3_up, wm, lake, csv, cleaned_csv,
                   since, df, puts, start>>
    /\ UNCHANGED auxVars

\* main_partition_transactions: a write fails after some groups were saved
PartitionFail(r) ==
    /\ pc[r] = "partition"
    /\ \E W \in SUBSET DatesIn(cleaned_csv) :
        localParts' = [d \in Dates |->
                          IF d \in W THEN GroupOf(cleaned_csv, d) ELSE localParts[d]]
    /\ pc' = [pc EXCEPT ![r] = "failed_partition"]
    /\ UNCHANGED <<source, nextId, s3_up, wm, lake, csv, cleaned_csv,
                   since, df, puts, start>>
    /\ UNCHANGED auxVars

\* upload_partitioned_transactions: mode='append' adds one file per date
LoadOverwrite(r) ==
    /\ pc[r] = "load"
    /\ lake' = [d \in Dates |->
                   IF d \in DatesIn(cleaned_csv)
                   THEN <<GroupOf(cleaned_csv, d)>> ELSE lake[d]]
    /\ pc' = [pc EXCEPT ![r] = "done"]
    /\ UNCHANGED <<source, nextId, s3_up, wm, csv, cleaned_csv,
                   localParts, since, df, puts, start>>
    /\ UNCHANGED auxVars
Load(r) ==
    /\ pc[r] = "load"
    /\ lake' = [d \in Dates |->
                   IF d \in DatesIn(cleaned_csv)
                   THEN Append(lake[d], GroupOf(cleaned_csv, d)) ELSE lake[d]]
    /\ pc' = [pc EXCEPT ![r] = "done"]
    /\ UNCHANGED <<source, nextId, s3_up, wm, csv, cleaned_csv,
                   localParts, since, df, puts, start>>
    /\ UNCHANGED auxVars

\* upload_transaction_data: an S3 call fails after some (or all) partitions
\* were written
LoadFail(r) ==
    /\ pc[r] = "load"
    /\ \E W \in SUBSET DatesIn(cleaned_csv) :
        lake' = [d \in Dates |->
                    IF d \in W
                    THEN Append(lake[d], GroupOf(cleaned_csv, d)) ELSE lake[d]]
    /\ pc' = [pc EXCEPT ![r] = "failed_load"]
    /\ UNCHANGED <<source, nextId, s3_up, wm, csv, cleaned_csv,
                   localParts, since, df, puts, start>>
    /\ UNCHANGED auxVars

\* the process of the run exits
EndRun(r) ==
    /\ pc[r] \in Terminal
    /\ pc' = [pc EXCEPT ![r] = "idle"]
    /\ since' = [since EXCEPT ![r] = NONE]
    /\ df' = [df EXCEPT ![r] = <<>>]
    /\ puts' = [puts EXCEPT ![r] = 0]
    /\ start' = [start EXCEPT ![r] = NoStores]
    /\ UNCHANGED <<source, nextId, s3_up, wm, lake, csv, cleaned_csv,
                   localParts>>
    /\ UNCHANGED auxVars

Next ==
    \/ InsertRow
    \/ ToggleS3
    \/ \E r \in Runs : StartRun(r)
    \/ \E r \in Runs : GetWatermark(r)
    \/ \E r \in Runs : Extract(r)
    \/ \E r \in Runs : SaveData(r)
    \/ \E r \in Runs : PutWatermark(r)
    \/ \E r \in Runs : CheckRows(r)
    \/ \E r \in Runs : Transform(r)
    \/ \E r \in Runs : TransformFail(r)
    \/ \E r \in Runs : Partition(r)
    \/ \E r \in Runs : PartitionFail(r)
    \/ \E r \in Runs : Load(r)
    \/ \E r \in Runs : LoadFail(r)
    \/ \E r \in Runs : EndRun(r)

Spec == Init /\ [][Next]_vars

\* ------------------------------------------------------ overlapping runs
MaxOverlaps == 1

\* pipeline.py is started while one other run is active and has not yet
\* written its watermark: nothing in the code prevents it (the new run takes
\* the first free process slot)
StartOverlap(r) ==
    /\ pc[r] = "idle"
    /\ \E q \in Runs :
        /\ pc[q] \in {"get_wm", "extract", "save_data", "put_wm"}
        /\ \A p \in Runs \ {q} : pc[p] = "idle"
    /\ \A q \in Runs : pc[q] = "idle" => r <= q
    /\ overlaps < MaxOverlaps
    /\ overlaps' = overlaps + 1
    /\ pc' = [pc EXCEPT ![r] = "get_wm"]
    /\ start' = [start EXCEPT ![r] = Stores]
    /\ UNCHANGED <<source, nextId, s3_up, wm, lake, csv, cleaned_csv,
                   localParts, since, df, puts>>
    /\ UNCHANGED <<cleanVars, reportVars>>

\* the application stamps a new sale with the current time and a positive
\* total: no row is inserted before one already there
InsertSale ==
    /\ InsertRow
    /\ \A y \in source' \ source :
        /\ y.total # 0
        /\ \A x \in source : x.at <= y.at

\* the scheduler starts a run while none is active, up to the first overlap
StartAlone(r) ==
    /\ overlaps = 0
    /\ StartRun(r)

\* runs whose every step succeeds, started one after the other or overlapping
NextOverlap ==
    \/ InsertSale
    \/ \E r \in Runs : StartAlone(r)
    \/ \E r \in Runs : StartOverlap(r)
    \/ \E r \in Runs : GetWatermark(r)
    \/ \E r \in Runs : Extract(r)
    \/ \E r \in Runs : SaveData(r)
    \/ \E r \in Runs : PutWatermark(r)
    \/ \E r \in Runs : CheckRows(r)
    \/ \E r \in Runs : Transform(r)
    \/ \E r \in Runs : Partition(r)
    \/ \E r \in Runs : Load(r)
    \/ \E r \in Runs : EndRun(r)

SpecOverlap == Init /\ [][NextOverlap]_vars

TypeOK ==
    /\ wm \in Times \cup {NONE}
    /\ pc \in [Runs -> Terminal \cup {"idle", "get_wm", "extract", "save_data",
                                       "put_wm", "check_rows", "transform",
                                       "partition", "load"}]

\* calendar date of a day number: day 0 is 30 September, the following days
\* are the days of October
Ymd(d) == IF d = 0 THEN <<2024, 9, 30>> ELSE <<2024, 10, d>>

\* ------------------------------------- where a date is stored and read
\* an integer formatted with :02d
Pad2(n) == IF n < 10 THEN "0" \o ToString(n) ELSE ToString(n)

\* folder of the local backup: year={year}/month={month:02d}/day={day:02d}
LocalFolder(d) ==
    <<"data", "transactions", "year=" \o ToString(Ymd(d)[1]),
      "month=" \o Pad2(Ymd(d)[2]), "day=" \o Pad2(Ymd(d)[3])>>

\* prefix the upload writes a date to: partition_cols=['year', 'month', 'day']
\* under transactions/, each column as name=value with the integer as it is
UploadPrefixPadded(d) ==
    <<"transactions", "year=" \o ToString(Ymd(d)[1]),
      "month=" \o Pad2(Ymd(d)[2]), "day=" \o Pad2(Ymd(d)[3])>>
UploadPrefix(d) ==
    <<"transactions", "year=" \o ToString(Ymd(d)[1]),
      "month=" \o ToString(Ymd(d)[2]), "day=" \o ToString(Ymd(d)[3])>>

\* prefix = f'transactions/year={year}/month={month}/day={day}/'
ReportPrefix(d) ==
    <<"transactions", "year=" \o ToString(Ymd(d)[1]),
      "month=" \o ToString(Ymd(d)[2]), "day=" \o ToString(Ymd(d)[3])>>

\* the objects of the bucket under transactions/: one per uploaded file
S3Objects ==
    UNION {{[folder |-> UploadPrefix(d), date |-> d, file |-> i,
             ext |-> ".parquet", body |-> lake[d][i]] :
            i \in 1..Len(lake[d])} : d \in Dates}

\* a key starts with a prefix that ends in '/'
UnderPrefix(folder, prefix) ==
    /\ Len(prefix) <= Len(folder)
    /\ \A i \in 1..Len(prefix) : folder[i] = prefix[i]

\* load_yesterday_transactions, yesterday being date d: the parquet objects
\* listed under the prefix
load_yesterday_transactions(d) ==
    {o \in S3Objects : UnderPrefix(o.folder, ReportPrefix(d)) /\ o.ext = ".parquet"}

\* ------------------------------------------- clean_data and the partitioner
\* applied to arbitrary frames
MaxFrame == 3

\* df['year'], df['month'], df['day'] = df['at'].dt.year, .month, .day
WithDateCols(x) ==
    x @@ [year  |-> Ymd(DateOf(x.at))[1],
          month |-> Ymd(DateOf(x.at))[2],
          day   |-> Ymd(DateOf(x.at))[3]]

\* group.drop(columns=['year', 'month', 'day'])
DropDateCols(x) == [f \in DOMAIN x \ {"year", "month", "day"} |-> x[f]]

\* df.groupby(['year', 'month', 'day']): (year, month, day) -> rows of the group
partition_head(frame) ==
    LET ext  == [i \in 1..Len(frame) |-> WithDateCols(frame[i])]
        keys == {<<ext[i].year, ext[i].month, ext[i].day>> : i \in 1..Len(frame)}
        grp(k) == SelectSeq(ext, LAMBDA e : <<e.year, e.month, e.day>> = k)
    IN  [k \in keys |-> <<DropDateCols(grp(k)[1])>>]
partition_transactions(frame) ==
    LET ext  == [i \in 1..Len(frame) |-> WithDateCols(frame[i])]
        keys == {<<ext[i].year, ext[i].month, ext[i].day>> : i \in 1..Len(frame)}
        grp(k) == SelectSeq(ext, LAMBDA e : <<e.year, e.month, e.day>> = k)
    IN  [k \in keys |-> [i \in 1..Len(grp(k)) |-> DropDateCols(grp(k)[i])]]

FrameIds == {NULL, 1, 2}
FrameTimes == {0, 1, TicksPerDay}
FrameTotals == {NULL, 0, 500 * AmountScale}
FrameRows ==
    [transaction_id : FrameIds, at : FrameTimes, total : FrameTotals,
     truck_id : TruckIds, payment_method_id : PaymentMethodIds]
Frames == UNION {[1..n -> FrameRows] : n \in 0..MaxFrame}

\* a frame is about to be cleaned
InitFrames ==
    /\ InitPipeline
    /\ InitReport
    /\ rows_in \in Frames
    /\ cpc = "loaded"
    /\ cleaned = <<>>
    /\ recleaned = <<>>
    /\ groups = <<>>

\* df_cleaned = clean_data(df)
CleanFrame ==
    /\ cpc = "loaded"
    /\ cleaned' = clean_data(rows_in)
    /\ cpc' = "cleaned"
    /\ UNCHANGED <<pipeVars, overlaps, reportVars, rows_in, recleaned, groups>>

\* clean_data applied to its own output
CleanAgain ==
    /\ cpc = "cleaned"
    /\ recleaned' = clean_data(cleaned)
    /\ cpc' = "recleaned"
    /\ UNCHANGED <<pipeVars, overlaps, reportVars, rows_in, cleaned, groups>>

\* partition_transactions(df_cleaned)
PartitionFrame ==
    /\ cpc = "cleaned"
    /\ groups' = partition_transactions(cleaned)
    /\ cpc' = "partitioned"
    /\ UNCHANGED <<pipeVars, overlaps, reportVars, rows_in, cleaned, recleaned>>

NextClean ==
    \/ CleanFrame
    \/ CleanAgain
    \/ PartitionFrame

SpecClean == InitFrames /\ [][NextClean]_vars

\* ------------------------------------------ report-lambda/generate_report.py
MaxDayRows == 2

\* the joined payment_method and truck_name columns of a row
PaymentMethodName(id) == IF id = 2 THEN "card" ELSE "cash"
TruckName(id) == id

RECURSIVE SumTotal(_)
SumTotal(frame) ==
    IF frame = <<>> THEN 0 ELSE Head(frame).total + SumTotal(Tail(frame))

\* .round(2), amounts being held in units of 1/AmountScale
Round2(v) == ((v + (AmountScale \div 200)) \div (AmountScale \div 100)) * (AmountScale \div 100)

\* one line of truck_stats: revenue, transactions, avg_transaction
TruckStats(frame, t) ==
    LET mine == SelectSeq(frame, LAMBDA x : TruckName(x.truck_id) = t)
    IN  [name |-> t, revenue |-> Round2(SumTotal(mine)),
         transactions |-> Len(mine),
         avg_transaction |-> Round2(SumTotal(mine) \div Len(mine))]

\* truck_stats.sort_values('revenue', ascending=False): every descending
\* arrangement (lines of equal revenue come in an order pandas chooses)
RECURSIVE SortByRevenue(_)
SortByRevenue(S) ==
    IF S = {} THEN {<<>>}
    ELSE UNION {{<<x>> \o rest : rest \in SortByRevenue(S \ {x})} :
                x \in {y \in S : \A z \in S : y.revenue >= z.revenue}}

\* one entry of payment_methods
PaymentStats(frame, method, total_revenue) ==
    LET mine == SelectSeq(frame, LAMBDA x : PaymentMethodName(x.payment_method_id) = method)
        revenue == SumTotal(mine)
    IN  [count |-> Len(mine),
         revenue |-> revenue,
         percentage |-> IF total_revenue > 0
                        THEN (revenue * 100) \div total_revenue ELSE 0,
         processing_cost |-> IF method = "card" THEN (revenue * 2) \div 100 ELSE 0]

RECURSIVE SumCosts(_, _)
SumCosts(pm, methods) ==
    IF methods = {} THEN 0
    ELSE LET m == CHOOSE m \in methods : TRUE
         IN  pm[m].processing_cost + SumCosts(pm, methods \ {m})

\* the dictionary of the df.empty branch
EmptyMetrics ==
    [date |-> "yesterday", total_revenue |-> 0, total_transactions |-> 0,
     best_truck |-> "N/A", best_truck_revenue |-> 0,
     worst_truck |-> "N/A", worst_truck_revenue |-> 0,
     payment_methods |-> <<>>, average_transaction |-> 0, all_trucks |-> <<>>]

\* the dictionaries calculate_metrics can return for a frame
calculate_metrics(frame) ==
    IF frame = <<>> THEN {EmptyMetrics}
    ELSE LET total_revenue == SumTotal(frame)
             trucks  == {TruckName(frame[i].truck_id) : i \in 1..Len(frame)}
             methods == {PaymentMethodName(frame[i].payment_method_id) : i \in 1..Len(frame)}
             pm == [m \in methods |-> PaymentStats(frame, m, total_revenue)]
             costs == SumCosts(pm, methods)
         IN  {[date |-> "yesterday",
               total_revenue |-> total_revenue,
               total_transactions |-> Len(frame),
               best_truck |-> stats[1].name,
               best_truck_revenue |-> stats[1].revenue,
               worst_truck |-> stats[Len(stats)].name,
               worst_truck_revenue |-> stats[Len(stats)].revenue,
               payment_methods |-> pm,
               average_transaction |-> total_revenue \div Len(frame),
               all_trucks |-> stats,
               total_card_costs |-> costs,
               net_revenue |-> total_revenue - costs] :
              stats \in SortByRevenue({TruckStats(frame, t) : t \in trucks})}

\* the keys generate_html_report and lambda_handler read from metrics
ReportKeys ==
    {"date", "total_revenue", "total_transactions", "total_card_costs",
     "net_revenue", "average_transaction", "best_truck", "best_truck_revenue",
     "worst_truck", "worst_truck_revenue", "all_trucks", "payment_methods"}

\* generate_html_report(metrics) returns, rather than raising KeyError
HtmlRenders(m) == ReportKeys \subseteq DOMAIN m

DayRows ==
    [transaction_id : {1}, at : {0}, total : {5 * AmountScale, 7 * AmountScale},
     truck_id : {1, 2}, payment_method_id : {1, 2}]
DayFrames == UNION {[1..n -> DayRows] : n \in 0..MaxDayRows}

\* load_yesterday_transactions has returned a frame
InitDay ==
    /\ InitPipeline
    /\ InitClean
    /\ day_rows \in DayFrames
    /\ rpc = "loaded"
    /\ metrics = <<>>
    /\ response = 0

\* lambda_handler, from the loaded frame to its return value
LambdaHandler ==
    /\ rpc = "loaded"
    /\ IF day_rows = <<>>
       THEN response' = 404 /\ UNCHANGED metrics
       ELSE \E m \in calculate_metrics(day_rows) :
                /\ metrics' = m
                /\ response' = IF HtmlRenders(m) THEN 200 ELSE 500
    /\ rpc' = "returned"
    /\ UNCHANGED <<pipeVars, overlaps, cleanVars, day_rows>>

\* metrics = calculate_metrics(df)
CalculateMetrics ==
    /\ rpc = "loaded"
    /\ metrics' \in calculate_metrics(day_rows)
    /\ rpc' = "calculated"
    /\ UNCHANGED <<pipeVars, overlaps, cleanVars, day_rows, response>>

\* html_report = generate_html_report(metrics)
GenerateHtml ==
    /\ rpc = "calculated"
    /\ rpc' = IF HtmlRenders(metrics) THEN "rendered" ELSE "key_error"
    /\ UNCHANGED <<pipeVars, overlaps, cleanVars, day_rows, metrics, response>>

NextReport ==
    \/ LambdaHandler
    \/ CalculateMetrics
    \/ GenerateHtml

SpecReport == InitDay /\ [][NextReport]_vars

\* ------------------------------------------------------------ properties
RowsOf(frame) == {frame[i] : i \in 1..Len(frame)}

\* the places in the lake where a row of transaction_id id is stored
LakePlaces(id) ==
    {p \in UNION {UNION {{<<d, i, j>> : j \in 1..Len(lake[d][i])} :
                         i \in 1..Len(lake[d])} : d \in Dates} :
        lake[p[1]][p[2]][p[3]].transaction_id = id}

\* the run has returned from a successful save_last_processed_timestamp
PutDone(r) ==
    \/ pc[r] \in {"transform", "partition", "load", "done",
                  "failed_transform", "failed_partition", "failed_load"}
    \/ pc[r] = "check_rows" /\ df[r] # <<>>

\* some row was inserted at or within one second after a row already there
\* (transaction ids are assigned in insertion order)
LateInsert ==
    \E x \in source, y \in source :
        x.transaction_id < y.transaction_id /\ y.at <= x.at + TicksPerSecond

\* the rows the run is to publish, and whether date d of them is published
Batch(r) == clean_data(df[r])
Published(r, d) == lake[d] = Append(start[r].lake[d], GroupOf(Batch(r), d))

\* C1: whenever the stored watermark has been advanced by a run, every
\* partition of that run's batch has already been written to the lake.
C1_WatermarkAfterPublish ==
    \A r \in Runs :
        (pc[r] # "idle" /\ wm # start[r].wm) =>
            \A d \in DatesIn(Batch(r)) : Published(r, d)

\* C2: after a run that failed in cleaning or in the upload, the stored
\* watermark equals the watermark the run started from.
C2_FailedRunKeepsWatermark ==
    \A r \in Runs :
        pc[r] \in {"failed_transform", "failed_load"} => wm = start[r].wm

\* C3: once a run has completed successfully, and no row was ever inserted
\* at or within one second after an existing row, every source row up to the
\* watermark that survives cleaning is stored in the lake.
C3_NoMissedRows ==
    ((\E r \in Runs : pc[r] = "done") /\ ~LateInsert) =>
        \A x \in source :
            (x.at <= wm /\ clean_data(<<x>>) # <<>>) =>
                LakePlaces(x.transaction_id) # {}

\* C4: with serialized runs, failed ones included, no source transaction is
\* stored in the lake more than once.
C4_NoDuplicateRows ==
    \A id \in 1..MaxRows : Cardinality(LakePlaces(id)) <= 1

C4_Witness ==
    \E r \in Runs, d \in Dates :
        /\ pc[r] = "done"
        /\ Len(lake[d]) >= 2
        /\ Len(start[r].lake[d]) < Len(lake[d])

\* C5: the stored watermark never decreases: once present it stays present
\* and every step leaves it equal or greater.
C5_WatermarkMonotone ==
    [][wm # NONE => (wm' # NONE /\ wm' >= wm)]_vars

C5_Witness ==
    \E r \in Runs :
        pc[r] = "done" /\ start[r].wm # NONE /\ wm > start[r].wm

\* C6: the frame extract_data returns holds exactly the source rows whose
\* timestamp is strictly greater than since (all rows when since is absent),
\* each once, in ascending timestamp order; none of them is at or before the
\* stored watermark.
C6_ExtractStrictlyNewer ==
    [][\A r \in Runs :
        (pc[r] = "extract" /\ pc'[r] # "extract") =>
            /\ RowsOf(df'[r]) =
                 {x \in source : since[r] = NONE \/ x.at > since[r]}
            /\ Len(df'[r]) = Cardinality(RowsOf(df'[r]))
            /\ \A i \in 1..Len(df'[r]), j \in 1..Len(df'[r]) :
                 i < j => df'[r][i].at <= df'[r][j].at
            /\ \A i \in 1..Len(df'[r]) :
                 /\ since[r] # NONE => ~(df'[r][i].at <= since[r])
                 /\ wm # NONE => ~(df'[r][i].at <= wm)]_vars

C6_Witness ==
    \E r \in Runs :
        /\ pc[r] = "save_data"
        /\ since[r] # NONE
        /\ df[r] # <<>>
        /\ \E x \in source : x.at <= since[r] /\ x \notin RowsOf(df[r])

\* C7: a run that extracted at least one row calls the watermark put exactly
\* once, and the value it stores is the greatest timestamp of the extracted
\* batch; no run calls the put more than once.
C7_WatermarkWrittenOnceWithMax ==
    \A r \in Runs :
        /\ puts[r] <= 1
        /\ (pc[r] \in Terminal /\ df[r] # <<>>) => puts[r] = 1
        /\ PutDone(r) =>
              /\ puts[r] = 1
              /\ wm # NONE
              /\ \A i \in 1..Len(df[r]) : df[r][i].at <= wm
              /\ \E i \in 1..Len(df[r]) : df[r][i].at = wm

C7_Witness ==
    \E r \in Runs :
        /\ pc[r] = "done"
        /\ Len(df[r]) >= 2
        /\ df[r][1].at < df[r][Len(df[r])].at
        /\ wm = df[r][Len(df[r])].at

\* C8: a run whose extraction returns no row halts without invoking
\* transform, partition or load, never calls the watermark put, and leaves
\* the watermark, the lake and the local files as they were at its start.
C8_ZeroRowsChangesNothing ==
    [][\A r \in Runs :
        /\ (pc[r] = "extract" /\ pc'[r] # "extract" /\ df'[r] = <<>>) =>
              (pc'[r] = "check_rows" /\ Stores' = start[r] /\ puts'[r] = 0)
        /\ (pc[r] = "check_rows" /\ pc'[r] # "check_rows" /\ df[r] = <<>>) =>
              pc'[r] = "halted"
        /\ pc'[r] = "halted" =>
              (df'[r] = <<>> /\ puts'[r] = 0 /\ Stores' = start'[r])
        /\ pc[r] = "halted" => pc'[r] \in {"halted", "idle"}]_vars

C8_Witness ==
    \E r \in Runs :
        /\ pc[r] = "halted"
        /\ start[r].wm # NONE
        /\ start[r].csv # <<>>
        /\ \E d \in Dates : lake[d] # <<>>

\* C9: when the watermark key is absent, reading it yields none without an
\* error, and the run extracts every source row.
C9_AbsentWatermarkFullExtract ==
    [][\A r \in Runs :
        /\ (pc[r] = "get_wm" /\ pc'[r] # "get_wm" /\ s3_up /\ wm = NONE) =>
              (pc'[r] = "extract" /\ since'[r] = NONE)
        /\ (pc[r] = "extract" /\ pc'[r] # "extract" /\ start[r].wm = NONE) =>
              (RowsOf(df'[r]) = source /\ Len(df'[r]) = Cardinality(source))]_vars

C9_Witness ==
    \E r \in Runs :
        /\ pc[r] = "save_data"
        /\ start[r].wm = NONE
        /\ since[r] = NONE
        /\ Len(df[r]) = MaxRows
        /\ RowsOf(df[r]) = source
        /\ \E x \in source : x.at = 0

\* C10: when reading the watermark fails for another reason than an absent
\* key, the run stops there: nothing is extracted or saved, no partition is
\* written and the watermark, the lake and the local files are unchanged.
C10_ReadFailureAborts ==
    [][\A r \in Runs :
        /\ (pc[r] = "get_wm" /\ pc'[r] # "get_wm" /\ ~s3_up) =>
              pc'[r] = "failed_get"
        /\ pc'[r] = "failed_get" =>
              (df'[r] = <<>> /\ puts'[r] = 0 /\ Stores' = start'[r])
        /\ pc[r] = "failed_get" => pc'[r] \in {"failed_get", "idle"}]_vars

C10_Witness ==
    \E r \in Runs :
        /\ pc[r] = "failed_get"
        /\ start[r].wm # NONE
        /\ source # {}

\* ----------------------------------- properties of clean_data, partitioning
\* the input row an output row of clean_data comes from
Uncleaned(x) == [x EXCEPT !.total = x.total * 100]

\* the first place of rows_in holding dedup key k
FirstPlace(k) ==
    CHOOSE j \in 1..Len(rows_in) :
        /\ DedupKey(rows_in[j]) = k
        /\ \A h \in 1..(j - 1) : DedupKey(rows_in[h]) # k

Occurrences(x, frame) == Cardinality({i \in 1..Len(frame) : frame[i] = x})

\* a row with an amount and no missing critical field
ValidRow(x) ==
    /\ x.total # NULL /\ x.total # 0
    /\ x.transaction_id # NULL /\ x.at # NULL
    /\ x.truck_id # NULL /\ x.payment_method_id # NULL

\* C11 as stated: cleaning twice gives the same frame as cleaning once,
\* amounts included.
C11_CleanIdempotent ==
    cpc = "recleaned" => recleaned = cleaned

\* C11 amended: cleaning the cleaned frame again keeps the same rows in the
\* same order, equal in every field but the amount, which is divided by 100
\* a second time; the two frames are equal only when they are empty.
C11_RecleanDividesAgain ==
    cpc = "recleaned" =>
        /\ Len(recleaned) = Len(cleaned)
        /\ \A i \in 1..Len(cleaned) :
              /\ recleaned[i].transaction_id = cleaned[i].transaction_id
              /\ recleaned[i].at = cleaned[i].at
              /\ recleaned[i].truck_id = cleaned[i].truck_id
              /\ recleaned[i].payment_method_id = cleaned[i].payment_method_id
              /\ recleaned[i].total * 100 = cleaned[i].total
        /\ (recleaned = cleaned) <=> (cleaned = <<>>)

C11_Witness ==
    /\ cpc = "recleaned"
    /\ Len(cleaned) >= 2
    /\ Len(rows_in) > Len(cleaned)

\* the scenario of the specification: a zero amount and two identical rows
ScenarioRows ==
    <<[transaction_id |-> 1, at |-> 0, total |-> 0,
       truck_id |-> 1, payment_method_id |-> 1],
      [transaction_id |-> 2, at |-> 0, total |-> 500 * AmountScale,
       truck_id |-> 1, payment_method_id |-> 1],
      [transaction_id |-> 2, at |-> 0, total |-> 500 * AmountScale,
       truck_id |-> 1, payment_method_id |-> 1]>>

\* C12: the output of clean_data has at most one row per dedup key, each
\* output row is the first input row of its key, the output keeps the input
\* order, and the scenario yields the single row of amount 5.00.
C12_DedupKeepsFirst ==
    cpc # "loaded" =>
        /\ \A i \in 1..Len(cleaned), j \in 1..Len(cleaned) :
              i # j => DedupKey(cleaned[i]) # DedupKey(cleaned[j])
        /\ \A i \in 1..Len(cleaned) :
              /\ \E j \in 1..Len(rows_in) : rows_in[j] = Uncleaned(cleaned[i])
              /\ rows_in[FirstPlace(DedupKey(Uncleaned(cleaned[i])))] =
                    Uncleaned(cleaned[i])
        /\ \A i \in 1..Len(cleaned), j \in 1..Len(cleaned) :
              i < j => FirstPlace(DedupKey(Uncleaned(cleaned[i]))) <
                       FirstPlace(DedupKey(Uncleaned(cleaned[j])))
        /\ rows_in = ScenarioRows =>
              cleaned = <<[transaction_id |-> 2, at |-> 0, total |-> 5 * AmountScale,
                           truck_id |-> 1, payment_method_id |-> 1]>>

C12_Witness ==
    /\ cpc = "cleaned"
    /\ rows_in = ScenarioRows
    /\ Len(cleaned) = 1
    /\ cleaned[1].total = 5 * AmountScale

\* C13: every row clean_data returns, and every row the partitioner gets,
\* has an amount that is neither missing nor zero and is the input amount
\* divided by 100, and has its id, timestamp, truck and payment method.
C13_CleanRowsValid ==
    /\ cpc # "loaded" =>
          \A i \in 1..Len(cleaned) :
              /\ ValidRow(cleaned[i])
              /\ \E j \in 1..Len(rows_in) :
                    /\ rows_in[j].transaction_id = cleaned[i].transaction_id
                    /\ rows_in[j].at = cleaned[i].at
                    /\ rows_in[j].truck_id = cleaned[i].truck_id
                    /\ rows_in[j].payment_method_id = cleaned[i].payment_method_id
                    /\ rows_in[j].total = cleaned[i].total * 100
    /\ cpc = "partitioned" =>
          \A k \in DOMAIN groups : \A i \in 1..Len(groups[k]) :
              ValidRow(groups[k][i])

C13_Witness ==
    /\ cpc = "partitioned"
    /\ cleaned # <<>>
    /\ \E j \in 1..Len(rows_in) :
          rows_in[j].transaction_id = NULL /\ rows_in[j].total = 500 * AmountScale
    /\ \E j \in 1..Len(rows_in) : rows_in[j].total = 0

\* C14: every cleaned row is in exactly one group, the group of the calendar
\* date of its timestamp; the groups hold only such rows, without the date
\* columns and in input order, and together as many rows as the input.
C14_PartitionComplete ==
    cpc = "partitioned" =>
        /\ \A i \in 1..Len(cleaned) : \A k \in DOMAIN groups :
              IF k = Ymd(DateOf(cleaned[i].at))
              THEN Occurrences(cleaned[i], groups[k]) =
                       Occurrences(cleaned[i], cleaned)
              ELSE Occurrences(cleaned[i], groups[k]) = 0
        /\ \A i \in 1..Len(cleaned) : Ymd(DateOf(cleaned[i].at)) \in DOMAIN groups
        /\ \A k \in DOMAIN groups :
              /\ groups[k] # <<>>
              /\ \A i \in 1..Len(groups[k]) :
                    /\ Occurrences(groups[k][i], cleaned) > 0
                    /\ DOMAIN groups[k][i] =
                          {"transaction_id", "at", "total", "truck_id",
                           "payment_method_id"}
              /\ \E d \in DatesIn(cleaned) :
                    k = Ymd(d) /\ groups[k] = GroupOf(cleaned, d)

C14_Witness ==
    /\ cpc = "partitioned"
    /\ Cardinality(DOMAIN groups) = 2
    /\ \E k \in DOMAIN groups : Len(groups[k]) = 2

\* C18: for every dedup key of which the input holds a row with a non-zero
\* amount and no missing critical field, the output of clean_data holds
\* exactly one row of that key.
C18_ValidTransactionKept ==
    cpc # "loaded" =>
        \A j \in 1..Len(rows_in) :
            ValidRow(rows_in[j]) =>
                Cardinality({i \in 1..Len(cleaned) :
                    DedupKey(Uncleaned(cleaned[i])) = DedupKey(rows_in[j])}) = 1

\* ------------------------------------------------- properties of the lake
\* the rows stored for date d, over all its files
LakeRowsOf(files) ==
    UNION {{files[i][j] : j \in 1..Len(files[i])} : i \in 1..Len(files)}

\* C15: every step keeps the files a date already has, unchanged and in
\* place, and a run that uploads adds to each date of its batch the rows of
\* that date, so a date holds the rows of every run that wrote to it.
C15_AppendPerRun ==
    [][/\ \A d \in Dates :
            /\ Len(lake'[d]) >= Len(lake[d])
            /\ \A i \in 1..Len(lake[d]) : lake'[d][i] = lake[d][i]
       /\ \A r \in Runs :
            (pc[r] = "load" /\ pc'[r] = "done") =>
                \A d \in Dates :
                    LakeRowsOf(lake'[d]) =
                        LakeRowsOf(lake[d]) \cup
                        {x \in RowsOf(cleaned_csv) : DateOf(x.at) = d}]_vars

C15_Witness ==
    \E r \in Runs, d \in Dates :
        /\ pc[r] = "done"
        /\ start[r].lake[d] # <<>>
        /\ Len(lake[d]) = Len(start[r].lake[d]) + 1
        /\ LakeRowsOf(start[r].lake[d]) # LakeRowsOf(lake[d])

\* C20: with serialized runs, in every state, every row stored in the lake
\* has a timestamp at or before the stored watermark.
C20_LakeBelowWatermark ==
    \A d \in Dates : \A x \in LakeRowsOf(lake[d]) :
        wm # NONE /\ x.at <= wm

C20_Witness ==
    \E r \in Runs :
        /\ pc[r] = "failed_load"
        /\ start[r].wm # NONE
        /\ \E d \in Dates : Len(lake[d]) > Len(start[r].lake[d])

\* C19: for every calendar date, with a one-digit month or day too, the
\* prefix the report reads is the prefix the upload stored that date under,
\* and the report loads exactly the files uploaded for that date.
C19_ReportReadsWhatWasStored ==
    \A d \in Dates :
        /\ ReportPrefix(d) = UploadPrefix(d)
        /\ load_yesterday_transactions(d) = {o \in S3Objects : o.date = d}
        /\ {o.body : o \in load_yesterday_transactions(d)} =
              {lake[d][i] : i \in 1..Len(lake[d])}

C19_Witness ==
    /\ \A d \in Dates : lake[d] # <<>>
    /\ \E d \in Dates : Ymd(d)[2] < 10
    /\ \E d \in Dates : Ymd(d)[3] < 10

\* C16: for an empty day, report generation raises no error, and every
\* metric the report uses is defined by calculate_metrics.
C16_EmptyDayMetricsDefined ==
    day_rows = <<>> =>
        /\ rpc = "returned" => response # 500
        /\ rpc \in {"calculated", "rendered", "key_error"} =>
              (ReportKeys \subseteq DOMAIN metrics /\ rpc # "key_error")

\* C17: a row stored twice in the lake, or a stored watermark below the
\* newest row of a run whose watermark put succeeded, is reachable once runs
\* have overlapped, and is unreachable as long as runs are serialized.
C17_UnsafeOnlyWhenOverlapping ==
    overlaps = 0 =>
        /\ \A id \in 1..MaxRows : Cardinality(LakePlaces(id)) <= 1
        /\ \A r \in Runs : PutDone(r) => wm >= MaxAt(df[r])

C17_Witness ==
    /\ overlaps > 0
    /\ \E r \in Runs, q \in Runs :
        /\ r # q
        /\ since[r] = start[q].wm
        /\ df[r] # <<>>
        /\ \E i \in 1..Len(df[r]), j \in 1..Len(df[q]) : df[r][i] = df[q][j]
    /\ \E id \in 1..MaxRows : Cardinality(LakePlaces(id)) >= 2
    /\ \E r \in Runs : PutDone(r) /\ wm < MaxAt(df[r])

\* the files the upload of run r adds to date d when it writes that date
Uploaded(r, d) ==
    IF d \in DatesIn(clean_data(df[r]))
    THEN <<GroupOf(clean_data(df[r]), d)>> ELSE <<>>

\* C21: a run transforms the file holding its own extracted rows, partitions
\* and uploads the file holding clean_data of those rows, and what it has
\* added to the lake, in whole or up to a failure, is groups of those rows
\* only: nothing an earlier run left in the two files is used again.
C21_RunIsolation ==
    \A r \in Runs :
        /\ pc[r] = "transform" => csv = df[r]
        /\ pc[r] \in {"partition", "load", "failed_partition"} =>
              cleaned_csv = clean_data(df[r])
        /\ pc[r] = "done" =>
              \A d \in Dates : lake[d] = start[r].lake[d] \o Uploaded(r, d)
        /\ pc[r] = "failed_load" =>
              \A d \in Dates :
                  lake[d] \in {start[r].lake[d],
                               start[r].lake[d] \o Uploaded(r, d)}

C21_Witness ==
    \E r \in Runs, d \in Dates :
        /\ pc[r] = "done"
        /\ start[r].csv # <<>>
        /\ start[r].cleaned_csv # <<>>
        /\ start[r].csv # df[r]
        /\ Uploaded(r, d) # <<>>
        /\ lake[d] = start[r].lake[d] \o Uploaded(r, d)
====
